---------------------------- MODULE Spec2Model ----------------------------
(***************************************************************************)
(* Model of game_app.py: a Streamlit script that every connected session   *)
(* re-executes from top to bottom in its own thread.  All sessions share   *)
(* the cached dictionary `games` and the cached `lock`; each session owns  *)
(* its session_state (my_role), its widget state (the room text box, the   *)
(* button that triggered the run) and the locals of its current run.       *)
(*                                                                         *)
(* One action is one access of a run to the shared state (a read or write  *)
(* of games, an acquire of the lock) together with the session-local       *)
(* statements around it; the for loop of cleanup_old_rooms is one action   *)
(* that fails if the dict changed size since the iteration began.  Runs of *)
(* different sessions interleave between these accesses.  A session has    *)
(* one run at a time; a widget event starts the next run once the current  *)
(* one is over.                                                            *)
(*                                                                         *)
(* Spec      two sessions, two room names and the empty name, a clock      *)
(* SpecRoom  all sessions in one room for one round, the clock stands      *)
(* SpecSweep cleanup_old_rooms alone, on registries and clock values       *)
(*           around the TTL                                                *)
(* SpecEvict two sessions in one room, a clock                             *)
(* SpecRound two sessions playing rounds in one room, fairly scheduled     *)
(* SpecJoin  all sessions joining one room, fairly scheduled               *)
(***************************************************************************)
EXTENDS Integers, Sequences, FiniteSets, TLC

\* ---- bounds of the model ------------------------------------------------
NumSessions == 3       \* connected browser sessions
NumActive   == 2       \* sessions that act in Spec
MaxEpochs   == 1       \* TTL-sized clock steps

\* ---- program constants --------------------------------------------------
TTL == 300             \* ttl_seconds default of cleanup_old_rooms

Sessions   == 1..NumSessions
Active     == 1..NumActive
NoSession  == 0
RoomNames  == {"r1", "r2"}        \* non-empty texts typed into the room box
RoomInputs == RoomNames \cup {""}
Moves      == {"Rock", "Paper", "Scissors"}
None       == "None"
NoRole     == "unset"             \* "my_role" not in st.session_state
Roles      == {"Player 1", "Player 2"}

VARIABLES
    games,            \* the shared dictionary: room name -> room record
    lock,             \* the shared threading.Lock: its holder, or NoSession
    now,              \* the wall clock read by time.time()
    room,             \* per session: value of the room text input
    my_role,          \* per session: st.session_state.my_role
    pc,               \* per session: position of the current script run
    clicked,          \* per session: the button that triggered the current run
    view,             \* per session: what the last finished run rendered
    current_time,     \* per session: local of cleanup_old_rooms
    rooms_to_delete,  \* per session: local of cleanup_old_rooms
    scan_used,        \* per session: dict size seen when items() iteration began
    my_move,          \* per session: local my_move
    opp_move,         \* per session: local opp_move
    outcome           \* per session: the result the winner logic displayed

shared  == <<games, lock, now>>
widget  == <<room, clicked, view>>
sweepl  == <<current_time, rooms_to_delete, scan_used>>
movel   == <<my_move, opp_move, outcome>>
vars    == <<games, lock, now, room, my_role, pc, clicked, view, current_time,
             rooms_to_delete, scan_used, my_move, opp_move, outcome>>

\* ---- dictionary helpers -------------------------------------------------
\* games[r] = v
DictSet(d, r, v) == [x \in DOMAIN d \cup {r} |-> IF x = r THEN v ELSE d[x]]

\* del games[r]
DictDel(d, r) == [x \in DOMAIN d \ {r} |-> d[x]]

\* the literal of lines 65-70
NewRoom(t) ==
    [player1_move |-> None, player2_move |-> None, count |-> 0, last_active |-> t]

Init ==
    /\ games = [x \in {} |-> NewRoom(0)]
    /\ lock = NoSession
    /\ now = 0
    /\ room = [s \in Sessions |-> ""]
    /\ my_role = [s \in Sessions |-> NoRole]
    /\ pc = [s \in Sessions |-> "idle"]
    /\ clicked = [s \in Sessions |-> None]
    /\ view = [s \in Sessions |-> "init"]
    /\ current_time = [s \in Sessions |-> 0]
    /\ rooms_to_delete = [s \in Sessions |-> << >>]
    /\ scan_used = [s \in Sessions |-> 0]
    /\ my_move = [s \in Sessions |-> None]
    /\ opp_move = [s \in Sessions |-> None]
    /\ outcome = [s \in Sessions |-> None]


\* ---- ends of a script run -----------------------------------------------
\* The run of session s is over and has rendered v; the locals of the run die.
EndRun(s, v) ==
    /\ pc' = [pc EXCEPT ![s] = "idle"]
    /\ view' = [view EXCEPT ![s] = v]
    /\ clicked' = [clicked EXCEPT ![s] = None]

\* the locals of the move section die with a run that shows no result
DropMoves(s) ==
    /\ my_move' = [my_move EXCEPT ![s] = None]
    /\ opp_move' = [opp_move EXCEPT ![s] = None]
    /\ outcome' = [outcome EXCEPT ![s] = None]

\* An uncaught exception exc ends the run; Streamlit renders the exception.
Raise(s, exc) ==
    /\ EndRun(s, exc)
    /\ current_time' = [current_time EXCEPT ![s] = 0]
    /\ rooms_to_delete' = [rooms_to_delete EXCEPT ![s] = << >>]
    /\ scan_used' = [scan_used EXCEPT ![s] = 0]
    /\ my_move' = [my_move EXCEPT ![s] = None]
    /\ opp_move' = [opp_move EXCEPT ![s] = None]
    /\ outcome' = [outcome EXCEPT ![s] = None]

\* What the user of a session can click after a run that rendered v.
Clickable(v) ==
    IF v = "buttons" THEN Moves
    ELSE IF v = "result" THEN {"Play Again"}
    ELSE {}

\* ---- cleanup_old_rooms(games), called at line 52 ---------------------------
\* (variant) a room is marked as soon as its age reaches the threshold
IsStaleInclusive(last_active, t, ttl_seconds) == t - last_active >= ttl_seconds

\* line 42: the test that marks a room for deletion
IsStale(last_active, t, ttl_seconds) == t - last_active > ttl_seconds

\* lines 36-43: the rooms the for loop appends to rooms_to_delete, in the
\* order in which the iteration yields them
RECURSIVE ScanRooms(_, _, _, _)
ScanRooms(games_dict, todo, t, ttl_seconds) ==
    IF todo = {} THEN << >>
    ELSE LET room_name == CHOOSE x \in todo : TRUE
             rest == ScanRooms(games_dict, todo \ {room_name}, t, ttl_seconds)
         IN IF IsStale(games_dict[room_name].last_active, t, ttl_seconds)
            THEN <<room_name>> \o rest
            ELSE rest

\* ---- a script run starts ------------------------------------------------
\* A run of session s starts on a widget event: the room text was edited
\* (r # room[s], no button), a rendered button b was clicked, or the script
\* reran itself (st.rerun after the sleeps, lines 102-103 and 146-147, or
\* after a write, lines 124, 131, 138, 169): same text, no button.
\* The run enters cleanup_old_rooms (line 52), reads the clock (line 35) and
\* starts iterating games_dict.items() (line 39).
StartRun(s, r, b) ==
    /\ pc[s] = "idle"
    /\ r \in RoomInputs
    /\ b \in Clickable(view[s]) \cup {None}
    /\ r # room[s] => b = None
    /\ room' = [room EXCEPT ![s] = r]
    /\ clicked' = [clicked EXCEPT ![s] = b]
    /\ view' = [view EXCEPT ![s] = "running"]
    /\ pc' = [pc EXCEPT ![s] = "scan"]
    /\ DropMoves(s)
    /\ current_time' = [current_time EXCEPT ![s] = now]
    /\ scan_used' = [scan_used EXCEPT ![s] = Cardinality(DOMAIN games)]
    /\ UNCHANGED <<shared, my_role, rooms_to_delete>>

\* The locals of cleanup_old_rooms die when it returns.
CleanupReturn(s) ==
    /\ current_time' = [current_time EXCEPT ![s] = 0]
    /\ rooms_to_delete' = [rooms_to_delete EXCEPT ![s] = << >>]
    /\ scan_used' = [scan_used EXCEPT ![s] = 0]
    /\ pc' = [pc EXCEPT ![s] = "input"]

\* lines 39-43: the for loop over games_dict.items().  The dict iterator
\* raises RuntimeError when the size of the dict differs from its size when
\* the iteration began; otherwise the loop collects the stale rooms.
CleanupScan(s) ==
    /\ pc[s] = "scan"
    /\ IF Cardinality(DOMAIN games) # scan_used[s]
       THEN /\ Raise(s, "RuntimeError in cleanup_old_rooms")
            /\ UNCHANGED <<shared, room, my_role>>
       ELSE LET found == ScanRooms(games, DOMAIN games, current_time[s], TTL) IN
            /\ IF found = << >>
               THEN CleanupReturn(s)
               ELSE /\ rooms_to_delete' = [rooms_to_delete EXCEPT ![s] = found]
                    /\ pc' = [pc EXCEPT ![s] = "delete"]
                    /\ UNCHANGED <<current_time, scan_used>>
            /\ UNCHANGED <<shared, widget, my_role, movel>>

\* lines 46-47: one step of the deletion loop; del raises KeyError when the
\* room is no longer in the dict.
CleanupDelete(s) ==
    /\ pc[s] = "delete"
    /\ LET room_name == Head(rooms_to_delete[s]) IN
       IF room_name \notin DOMAIN games
       THEN /\ Raise(s, "KeyError in cleanup_old_rooms")
            /\ UNCHANGED <<shared, room, my_role>>
       ELSE /\ games' = DictDel(games, room_name)
            /\ IF Tail(rooms_to_delete[s]) = << >>
               THEN CleanupReturn(s)
               ELSE /\ rooms_to_delete' = [rooms_to_delete EXCEPT ![s] = Tail(@)]
                    /\ UNCHANGED <<pc, current_time, scan_used>>
            /\ UNCHANGED <<lock, now, widget, my_role, movel>>


\* ---- lines 58-73: the room ----------------------------------------------
\* (variant) the empty name is not rejected
CheckRoomNoStop(s) ==
    /\ pc[s] = "input"
    /\ pc' = [pc EXCEPT ![s] =
          IF room[s] \notin DOMAIN games THEN "create" ELSE "touch"]
    /\ UNCHANGED <<shared, widget, my_role, sweepl, movel>>

\* lines 58-64: stop on an empty room name, else test `room not in games`
CheckRoom(s) ==
    /\ pc[s] = "input"
    /\ IF room[s] = ""
       THEN EndRun(s, "stopped")
       ELSE /\ pc' = [pc EXCEPT ![s] =
                  IF room[s] \notin DOMAIN games THEN "create" ELSE "touch"]
            /\ UNCHANGED <<clicked, view>>
    /\ UNCHANGED <<shared, room, my_role, sweepl, movel>>

\* lines 65-70: games[room] = {...}, a fresh room stamped with the clock
CreateRoom(s) ==
    /\ pc[s] = "create"
    /\ games' = DictSet(games, room[s], NewRoom(now))
    /\ pc' = [pc EXCEPT ![s] = "touch"]
    /\ UNCHANGED <<lock, now, widget, my_role, sweepl, movel>>

\* line 73: games[room]["last_active"] = time.time(); then line 77 decides
\* whether this session still needs a role
TouchRoom(s) ==
    /\ pc[s] = "touch"
    /\ IF room[s] \notin DOMAIN games
       THEN /\ Raise(s, "KeyError")
            /\ UNCHANGED <<shared, room, my_role>>
       ELSE /\ games' = [games EXCEPT ![room[s]].last_active = now]
            /\ pc' = [pc EXCEPT ![s] =
                  IF my_role[s] = NoRole THEN "assign" ELSE "waiting"]
            /\ UNCHANGED <<lock, now, widget, my_role, sweepl, movel>>

\* ---- lines 77-90: player assignment ---------------------------------------
\* (variant) the else branch seats the caller as well
RoleForNoFull(current_count) ==
    IF current_count = 0 THEN "Player 1" ELSE "Player 2"

\* lines 81-89: the role a session gets for the count it read; None: room full
RoleFor(current_count) ==
    IF current_count = 0 THEN "Player 1"
    ELSE IF current_count = 1 THEN "Player 2"
    ELSE None

\* (variant) st.stop() inside the `with` block leaves the lock taken
AssignRoleKeepLock(s) ==
    /\ pc[s] = "assign"
    /\ lock = NoSession
    /\ IF room[s] \notin DOMAIN games
       THEN /\ Raise(s, "KeyError")
            /\ lock' = NoSession
            /\ UNCHANGED <<games, now, room, my_role>>
       ELSE LET r == RoleFor(games[room[s]].count) IN
            IF r = None
            THEN /\ EndRun(s, "full")
                 /\ lock' = s
                 /\ UNCHANGED <<games, now, room, my_role, sweepl, movel>>
            ELSE /\ my_role' = [my_role EXCEPT ![s] = r]
                 /\ lock' = s
                 /\ pc' = [pc EXCEPT ![s] = "count"]
                 /\ UNCHANGED <<games, now, widget, sweepl, movel>>

\* lines 78-89: `with lock:` blocks until the lock is free and takes it;
\* the session reads the count and branches.  Leaving the `with` block, by
\* st.stop() or by an exception, releases the lock.
AssignRole(s) ==
    /\ pc[s] = "assign"
    /\ lock = NoSession
    /\ IF room[s] \notin DOMAIN games
       THEN /\ Raise(s, "KeyError")
            /\ lock' = NoSession
            /\ UNCHANGED <<games, now, room, my_role>>
       ELSE LET r == RoleFor(games[room[s]].count) IN
            IF r = None
            THEN /\ EndRun(s, "full")
                 /\ lock' = NoSession
                 /\ UNCHANGED <<games, now, room, my_role, sweepl, movel>>
            ELSE /\ my_role' = [my_role EXCEPT ![s] = r]
                 /\ lock' = s
                 /\ pc' = [pc EXCEPT ![s] = "count"]
                 /\ UNCHANGED <<games, now, widget, sweepl, movel>>

\* (variant) the count is written one too high
CountForOneMore(r) == IF r = "Player 1" THEN 1 ELSE 3

\* lines 83, 86: the count the session writes after taking role r
CountFor(r) == IF r = "Player 1" THEN 1 ELSE 2

\* lines 83, 86, 90: games[room]["count"] = 1 or 2, then the lock is released
WriteCount(s) ==
    /\ pc[s] = "count"
    /\ lock' = NoSession
    /\ IF room[s] \notin DOMAIN games
       THEN /\ Raise(s, "KeyError")
            /\ UNCHANGED <<games, now, room, my_role>>
       ELSE /\ games' = [games EXCEPT ![room[s]].count = CountFor(my_role[s])]
            /\ pc' = [pc EXCEPT ![s] = "waiting"]
            /\ UNCHANGED <<now, widget, my_role, sweepl, movel>>

\* ---- lines 98-103: the waiting room ---------------------------------------
\* line 100: games[room]["count"] < 2 -> sleep and rerun
WaitingRoom(s) ==
    /\ pc[s] = "waiting"
    /\ IF room[s] \notin DOMAIN games
       THEN /\ Raise(s, "KeyError")
            /\ UNCHANGED <<shared, room, my_role>>
       ELSE /\ IF games[room[s]].count < 2
               THEN EndRun(s, "waiting")
               ELSE /\ pc' = [pc EXCEPT ![s] = "my_move"]
                    /\ UNCHANGED <<clicked, view>>
            /\ UNCHANGED <<shared, room, my_role, sweepl, movel>>


\* ---- lines 105-169: moves and results -------------------------------------
\* lines 107-112: the field of the room that holds the move of a role
MyField(r) == IF r = "Player 1" THEN "player1_move" ELSE "player2_move"
OppField(r) == IF r = "Player 1" THEN "player2_move" ELSE "player1_move"

\* (variant) the second winning pair is written the wrong way round
WinnerLogicSwapped(mine, theirs) ==
    IF mine = theirs THEN "Tie"
    ELSE IF \/ (mine = "Rock" /\ theirs = "Scissors")
            \/ (mine = "Rock" /\ theirs = "Paper")
            \/ (mine = "Scissors" /\ theirs = "Paper")
    THEN "Win"
    ELSE "Lose"

\* lines 153-163: the winner logic
WinnerLogic(mine, theirs) ==
    IF mine = theirs THEN "Tie"
    ELSE IF \/ (mine = "Rock" /\ theirs = "Scissors")
            \/ (mine = "Paper" /\ theirs = "Rock")
            \/ (mine = "Scissors" /\ theirs = "Paper")
    THEN "Win"
    ELSE "Lose"

\* lines 108, 111: my_move = games[room][<my field>]
ReadMyMove(s) ==
    /\ pc[s] = "my_move"
    /\ IF room[s] \notin DOMAIN games
       THEN /\ Raise(s, "KeyError")
            /\ UNCHANGED <<shared, room, my_role>>
       ELSE /\ my_move' = [my_move EXCEPT ![s] = games[room[s]][MyField(my_role[s])]]
            /\ pc' = [pc EXCEPT ![s] = "opp_move"]
            /\ UNCHANGED <<shared, widget, my_role, sweepl, opp_move, outcome>>

\* lines 109, 112: opp_move = games[room][<the other field>], then the
\* branches of lines 115-166 on the two locals and the clicked button
ReadOppMove(s) ==
    /\ pc[s] = "opp_move"
    /\ IF room[s] \notin DOMAIN games
       THEN /\ Raise(s, "KeyError")
            /\ UNCHANGED <<shared, room, my_role>>
       ELSE LET theirs == games[room[s]][OppField(my_role[s])] IN
            /\ IF my_move[s] = None
               THEN IF clicked[s] \in Moves
                    THEN /\ pc' = [pc EXCEPT ![s] = "write_move"]
                         /\ opp_move' = [opp_move EXCEPT ![s] = theirs]
                         /\ UNCHANGED <<clicked, view, my_move, outcome>>
                    ELSE /\ EndRun(s, "buttons")
                         /\ DropMoves(s)
               ELSE IF theirs = None
                    THEN /\ EndRun(s, "opponent")
                         /\ DropMoves(s)
                    ELSE /\ opp_move' = [opp_move EXCEPT ![s] = theirs]
                         /\ outcome' = [outcome EXCEPT ![s] = WinnerLogic(my_move[s], theirs)]
                         /\ UNCHANGED my_move
                         /\ IF clicked[s] = "Play Again"
                            THEN /\ pc' = [pc EXCEPT ![s] = "reset1"]
                                 /\ UNCHANGED <<clicked, view>>
                            ELSE EndRun(s, "result")
            /\ UNCHANGED <<shared, room, my_role, sweepl>>

\* lines 119-138: games[room][<my field>] = <the clicked move>; st.rerun()
WriteMove(s) ==
    /\ pc[s] = "write_move"
    /\ IF room[s] \notin DOMAIN games
       THEN /\ Raise(s, "KeyError")
            /\ UNCHANGED <<shared, room, my_role>>
       ELSE /\ games' = [games EXCEPT ![room[s]][MyField(my_role[s])] = clicked[s]]
            /\ EndRun(s, "rerun")
            /\ DropMoves(s)
            /\ UNCHANGED <<lock, now, room, my_role, sweepl>>

\* line 167: games[room]["player1_move"] = None
ResetFirst(s) ==
    /\ pc[s] = "reset1"
    /\ IF room[s] \notin DOMAIN games
       THEN /\ Raise(s, "KeyError")
            /\ UNCHANGED <<shared, room, my_role>>
       ELSE /\ games' = [games EXCEPT ![room[s]].player1_move = None]
            /\ pc' = [pc EXCEPT ![s] = "reset2"]
            /\ UNCHANGED <<lock, now, widget, my_role, sweepl, movel>>

\* (variant) Play Again replaces the room by a fresh one
ResetSecondFresh(s) ==
    /\ pc[s] = "reset2"
    /\ IF room[s] \notin DOMAIN games
       THEN /\ Raise(s, "KeyError")
            /\ UNCHANGED <<shared, room, my_role>>
       ELSE /\ games' = [games EXCEPT ![room[s]] = NewRoom(now)]
            /\ EndRun(s, "rerun")
            /\ DropMoves(s)
            /\ UNCHANGED <<lock, now, room, my_role, sweepl>>

\* lines 168-169: games[room]["player2_move"] = None; st.rerun()
ResetSecond(s) ==
    /\ pc[s] = "reset2"
    /\ IF room[s] \notin DOMAIN games
       THEN /\ Raise(s, "KeyError")
            /\ UNCHANGED <<shared, room, my_role>>
       ELSE /\ games' = [games EXCEPT ![room[s]].player2_move = None]
            /\ EndRun(s, "rerun")
            /\ DropMoves(s)
            /\ UNCHANGED <<lock, now, room, my_role, sweepl>>

\* ---- the clock ----------------------------------------------------------
\* Time passes between any two steps.  The clock is sampled: it advances by a
\* full TTL or by one second more, at most MaxEpochs times.
Tick(d) ==
    /\ now \div TTL < MaxEpochs
    /\ now' = now + d
    /\ UNCHANGED <<games, lock, widget, my_role, pc, sweepl, movel>>

\* Two sessions, two room names and the empty name, the clock.
Next ==
    \/ \E s \in Active, r \in RoomInputs, b \in Moves \cup {"Play Again", None} :
          StartRun(s, r, b)
    \/ \E s \in Active : CleanupScan(s)
    \/ \E s \in Active : CleanupDelete(s)
    \/ \E s \in Active : CheckRoom(s)
    \/ \E s \in Active : CreateRoom(s)
    \/ \E s \in Active : TouchRoom(s)
    \/ \E s \in Active : AssignRole(s)
    \/ \E s \in Active : WriteCount(s)
    \/ \E s \in Active : WaitingRoom(s)
    \/ \E s \in Active : ReadMyMove(s)
    \/ \E s \in Active : ReadOppMove(s)
    \/ \E s \in Active : WriteMove(s)
    \/ \E s \in Active : ResetFirst(s)
    \/ \E s \in Active : ResetSecond(s)
    \/ \E d \in {TTL, TTL + 1} : Tick(d)

Spec == Init /\ [][Next]_vars

\* One round: all sessions contend for the one room TheRoom while the clock
\* stands still (no room is ever stale, so the deletion loop has nothing to
\* do) and nobody clicks Play Again.
TheRoom == "r1"

NextRoom ==
    \/ \E s \in Sessions, b \in Moves \cup {None} : StartRun(s, TheRoom, b)
    \/ \E s \in Sessions : CleanupScan(s)
    \/ \E s \in Sessions : CheckRoom(s)
    \/ \E s \in Sessions : CreateRoom(s)
    \/ \E s \in Sessions : TouchRoom(s)
    \/ \E s \in Sessions : AssignRole(s)
    \/ \E s \in Sessions : WriteCount(s)
    \/ \E s \in Sessions : WaitingRoom(s)
    \/ \E s \in Sessions : ReadMyMove(s)
    \/ \E s \in Sessions : ReadOppMove(s)
    \/ \E s \in Sessions : WriteMove(s)

SpecRoom == Init /\ [][NextRoom]_vars

\* Two sessions that only ever type TheRoom, with the clock: a room leaves
\* the registry only through a sweep, and a session that finds its room
\* missing was in that same room before.
NextEvict ==
    \/ \E s \in Active, b \in Moves \cup {"Play Again", None} :
          StartRun(s, TheRoom, b)
    \/ \E s \in Active : CleanupScan(s)
    \/ \E s \in Active : CleanupDelete(s)
    \/ \E s \in Active : CheckRoom(s)
    \/ \E s \in Active : CreateRoom(s)
    \/ \E s \in Active : TouchRoom(s)
    \/ \E s \in Active : AssignRole(s)
    \/ \E s \in Active : WriteCount(s)
    \/ \E s \in Active : WaitingRoom(s)
    \/ \E s \in Active : ReadMyMove(s)
    \/ \E s \in Active : ReadOppMove(s)
    \/ \E s \in Active : WriteMove(s)
    \/ \E s \in Active : ResetFirst(s)
    \/ \E s \in Active : ResetSecond(s)
    \/ \E d \in {TTL, TTL + 1} : Tick(d)

SpecEvict == Init /\ [][NextEvict]_vars

\* One step of session s in a game of one room without the clock: nothing
\* is ever stale, so the sweep deletes nothing.
RoundStep(s) ==
    \/ \E b \in Moves \cup {"Play Again", None} : StartRun(s, TheRoom, b)
    \/ CleanupScan(s)
    \/ CheckRoom(s)
    \/ CreateRoom(s)
    \/ TouchRoom(s)
    \/ AssignRole(s)
    \/ WriteCount(s)
    \/ WaitingRoom(s)
    \/ ReadMyMove(s)
    \/ ReadOppMove(s)
    \/ WriteMove(s)
    \/ ResetFirst(s)
    \/ ResetSecond(s)

NextRound == \E s \in Active : RoundStep(s)

\* Two sessions playing rounds in one room.  Every session keeps being run:
\* the script's own st.rerun() polling (lines 100-103, 143-147) and the user's
\* clicks start a new run after each one that ends, and a started run goes on
\* unless it waits for the lock.
SpecRound ==
    Init /\ [][NextRound]_vars /\ \A s \in Active : WF_vars(RoundStep(s))

\* One step of session s that joins the one room and clicks nothing.
JoinStep(s) ==
    \/ StartRun(s, TheRoom, None)
    \/ CleanupScan(s)
    \/ CheckRoom(s)
    \/ CreateRoom(s)
    \/ TouchRoom(s)
    \/ AssignRole(s)
    \/ WriteCount(s)
    \/ WaitingRoom(s)
    \/ ReadMyMove(s)
    \/ ReadOppMove(s)

NextJoin == \E s \in Sessions : JoinStep(s)

\* Three sessions joining one room, each scheduled fairly.
SpecJoin ==
    Init /\ [][NextJoin]_vars /\ \A s \in Sessions : WF_vars(JoinStep(s))

\* ---- cleanup_old_rooms as a function ----------------------------------------
\* lines 46-47: the deletion loop over rooms_to_delete
RECURSIVE DeleteRooms(_, _)
DeleteRooms(games_dict, to_delete) ==
    IF to_delete = << >> THEN games_dict
    ELSE DeleteRooms(DictDel(games_dict, Head(to_delete)), Tail(to_delete))

\* lines 30-47: the registry a call of cleanup_old_rooms leaves when no other
\* session touches the registry during the call
cleanup_old_rooms(games_dict, t, ttl_seconds) ==
    DeleteRooms(games_dict, ScanRooms(games_dict, DOMAIN games_dict, t, ttl_seconds))

\* line 52: a run of session s starts and gets through cleanup_old_rooms(games)
\* before any other session takes a step
SweepAlone(s) ==
    /\ pc[s] = "idle"
    /\ games' = cleanup_old_rooms(games, now, TTL)
    /\ pc' = [pc EXCEPT ![s] = "input"]
    /\ view' = [view EXCEPT ![s] = "running"]
    /\ UNCHANGED <<lock, now, room, clicked, my_role, sweepl, movel>>

\* The registries and clock values a sweep is tried on: each room absent, or
\* holding one seated player and last touched at one of SweepStamps.
SweepStamps == {0, 1, TTL}
SweepNows == {TTL - 1, TTL, TTL + 1, 2 * TTL, 2 * TTL + 1}
SweepRooms == {[NewRoom(t) EXCEPT !.count = 1] : t \in SweepStamps}
SweepRegistries ==
    UNION {[present -> SweepRooms] : present \in SUBSET RoomNames}

InitSweep ==
    /\ games \in SweepRegistries
    /\ now \in SweepNows
    /\ lock = NoSession
    /\ room = [s \in Sessions |-> ""]
    /\ my_role = [s \in Sessions |-> NoRole]
    /\ pc = [s \in Sessions |-> "idle"]
    /\ clicked = [s \in Sessions |-> None]
    /\ view = [s \in Sessions |-> "init"]
    /\ current_time = [s \in Sessions |-> 0]
    /\ rooms_to_delete = [s \in Sessions |-> << >>]
    /\ scan_used = [s \in Sessions |-> 0]
    /\ my_move = [s \in Sessions |-> None]
    /\ opp_move = [s \in Sessions |-> None]
    /\ outcome = [s \in Sessions |-> None]

NextSweep == \E s \in Sessions : SweepAlone(s)

SpecSweep == InitSweep /\ [][NextSweep]_vars

TypeOK ==
    /\ lock \in Sessions \cup {NoSession}
    /\ DOMAIN games \subseteq RoomNames
    /\ \A s \in Sessions : my_role[s] \in Roles \cup {NoRole}

\* ---- claims -------------------------------------------------------------
\* the sessions that hold role r
Holders(r) == {s \in Sessions : my_role[s] = r}

\* session s has left the player assignment with a seat / with "Room is full!"
Seated(s) == my_role[s] \in Roles /\ pc[s] # "count"
Refused(s) == my_role[s] = NoRole /\ pc[s] = "idle" /\ view[s] = "full"

\* C1: when every session has joined the one fresh room (each got a seat or
\* was told the room is full), exactly one session holds Player 1, exactly
\* one holds Player 2, and the others were refused.
C1_OnePlayerEach ==
    (\A s \in Sessions : Seated(s) \/ Refused(s)) =>
        /\ Cardinality(Holders("Player 1")) = 1
        /\ Cardinality(Holders("Player 2")) = 1

C3_DisjointSeats ==
    \A s1, s2 \in Sessions :
        (s1 # s2 /\ room[s1] = room[s2] /\ my_role[s1] \in Roles)
            => my_role[s1] # my_role[s2]

\* C4: the step of the player assignment in which an unseated session finds
\* count = 2 ends the run with "Room is full!", gives the session no role,
\* releases the lock and leaves the registry as it was.
C4_RoomFullNoEffect ==
    [][\A s \in Sessions :
         (/\ pc[s] = "assign" /\ pc'[s] # "assign"
          /\ room[s] \in DOMAIN games
          /\ games[room[s]].count = 2)
         => (/\ pc'[s] = "idle" /\ view'[s] = "full"
             /\ my_role'[s] = NoRole
             /\ lock' = NoSession
             /\ games' = games)]_vars

\* a session was refused by a room that holds two seated players
C4_Witness ==
    \E s \in Sessions :
        /\ Refused(s)
        /\ room[s] \in DOMAIN games
        /\ games[room[s]].count = 2
        /\ Cardinality({t \in Sessions : t # s /\ Seated(t)}) = 2

MoveFields == {"player1_move", "player2_move"}

\* C5: once a seat's move is recorded in a room, no step replaces it by
\* another move: it stays, or it becomes absent (Play Again), or the room
\* leaves the registry.
C5_MoveWrittenOnce ==
    [][\A r \in DOMAIN games, f \in MoveFields :
         games[r][f] # None =>
            \/ r \notin DOMAIN games'
            \/ games'[r][f] \in {games[r][f], None}]_vars

\* C6: each of the two writes of Play Again sets its move field of the
\* session's room to absent and changes nothing else in the registry (the
\* count stays, no room comes or goes), and no session's role changes; a
\* write that finds the room gone changes nothing at all.
C6_PlayAgainFrame ==
    [][\A s \in Sessions :
         /\ (pc[s] = "reset1" /\ pc'[s] # "reset1") =>
               /\ my_role' = my_role
               /\ IF room[s] \in DOMAIN games
                  THEN /\ games' = [games EXCEPT ![room[s]].player1_move = None]
                       /\ games'[room[s]].count = games[room[s]].count
                  ELSE games' = games
         /\ (pc[s] = "reset2" /\ pc'[s] # "reset2") =>
               /\ my_role' = my_role
               /\ IF room[s] \in DOMAIN games
                  THEN /\ games' = [games EXCEPT ![room[s]].player2_move = None]
                       /\ games'[room[s]].count = games[room[s]].count
                  ELSE games' = games]_vars

\* Play Again of session s is done: its room has count 2 and no moves, both
\* players are still seated, and the other player still looks at the result.
C6_Witness ==
    \E s, t \in Sessions :
        /\ s # t /\ room[s] = room[t] /\ room[s] \in DOMAIN games
        /\ pc[s] = "idle" /\ view[s] = "rerun"
        /\ pc[t] = "idle" /\ view[t] = "result"
        /\ {my_role[s], my_role[t]} = Roles
        /\ games[room[s]].count = 2
        /\ games[room[s]].player1_move = None
        /\ games[room[s]].player2_move = None

\* the pairs (winner, loser) of the rules
Beats == {<<"Rock", "Scissors">>, <<"Scissors", "Paper">>, <<"Paper", "Rock">>}

\* C7: a displayed result is over two moves and is the one of the reference
\* table: Tie for equal moves, Win when (mine, theirs) is a beating pair,
\* Lose for the reverse pairs; two sessions that see the same two distinct
\* moves from opposite sides see Win and Lose.
C7_WinnerTable ==
    /\ \A s \in Sessions : outcome[s] # None =>
          /\ my_move[s] \in Moves /\ opp_move[s] \in Moves
          /\ (my_move[s] = opp_move[s]) <=> (outcome[s] = "Tie")
          /\ (<<my_move[s], opp_move[s]>> \in Beats) <=> (outcome[s] = "Win")
          /\ (<<opp_move[s], my_move[s]>> \in Beats) <=> (outcome[s] = "Lose")
    /\ \A s, t \in Sessions :
          (/\ outcome[s] # None /\ outcome[t] # None
           /\ my_move[s] = opp_move[t] /\ opp_move[s] = my_move[t]
           /\ my_move[s] # opp_move[s])
          => ((outcome[s] = "Win") <=> (outcome[t] = "Lose"))

\* the two players of a room look at Win and at Lose for the same round
C7_Witness ==
    \E s, t \in Sessions :
        /\ s # t /\ room[s] = room[t]
        /\ view[s] = "result" /\ view[t] = "result"
        /\ outcome[s] = "Win" /\ outcome[t] = "Lose"
        /\ my_move[s] = opp_move[t] /\ opp_move[s] = my_move[t]

\* C8: a sweep that no other session interleaves with keeps exactly the rooms
\* with now - last_active <= ttl, unchanged, and removes all others.
C8_SweepIff ==
    [][(\E s \in Sessions : pc[s] = "idle" /\ pc'[s] = "input") =>
          /\ DOMAIN games' =
                {r \in DOMAIN games : now - games[r].last_active <= TTL}
          /\ \A r \in DOMAIN games' : games'[r] = games[r]]_vars

\* after a sweep at time 2*TTL the room touched at TTL is all that is left
C8_Witness ==
    /\ \E s \in Sessions : pc[s] = "input"
    /\ now = 2 * TTL
    /\ DOMAIN games = {"r2"}
    /\ games["r2"].last_active = TTL

\* C9: a sweep removes a room only if the room's last_active, at the moment
\* of the removal, is more than ttl before the time the sweep read.
C9_TouchedRoomKept ==
    [][\A s \in Sessions :
         (/\ pc[s] = "delete"
          /\ rooms_to_delete'[s] # rooms_to_delete[s]
          /\ Head(rooms_to_delete[s]) \in DOMAIN games
          /\ Head(rooms_to_delete[s]) \notin DOMAIN games')
         => current_time[s] > games[Head(rooms_to_delete[s])].last_active + TTL]_vars

\* C10: no statement after create-on-miss finds the room missing: no run ends
\* in the KeyError of a games[room] access, and the room of a session inside
\* the player assignment is in the registry.
C10_RoomPresent ==
    /\ \A s \in Sessions : view[s] # "KeyError"
    /\ \A s \in Sessions : pc[s] = "count" => room[s] \in DOMAIN games

\* C11: no run ends in an exception raised inside cleanup_old_rooms.
C11_SweepNeverRaises ==
    \A s \in Sessions :
        view[s] \notin {"RuntimeError in cleanup_old_rooms",
                        "KeyError in cleanup_old_rooms"}

\* session s takes this step
Stepped(s) == pc'[s] # pc[s] \/ rooms_to_delete'[s] # rooms_to_delete[s]

\* C12 as stated: no step of a run whose room name is empty changes the
\* registry.
C12_EmptyNameNoRegistryChange ==
    [][\A s \in Sessions :
         (Stepped(s) /\ room'[s] = "") => games' = games]_vars

\* C12 as amended: a step of a run whose room name is empty creates no room
\* and modifies no room; the only change it makes to the registry is the
\* removal, by the sweep that opens the run, of a room that the sweep's scan
\* had listed for deletion.
C12_EmptyNameOnlySweeps ==
    [][\A s \in Sessions :
         (Stepped(s) /\ room'[s] = "") =>
            /\ \A r \in DOMAIN games' : r \in DOMAIN games /\ games'[r] = games[r]
            /\ games' # games =>
                  /\ pc[s] = "delete"
                  /\ rooms_to_delete[s] # << >>
                  /\ games' = DictDel(games, Head(rooms_to_delete[s]))]_vars

\* a run with the empty name was rejected after its sweep had emptied the
\* registry of the stale room
C12_Witness ==
    \E s \in Sessions :
        /\ room[s] = "" /\ pc[s] = "idle" /\ view[s] = "stopped"
        /\ now > TTL
        /\ DOMAIN games = {}
        /\ \E t \in Sessions : t # s /\ my_role[t] \in Roles

\* C13: a session whose run finds its room gone from the registry (the run
\* is about to re-create it, line 65) no longer holds a role, so that it goes
\* through the player assignment of the new room.
C13_EvictedCallerUnseated ==
    \A s \in Sessions : pc[s] = "create" => my_role[s] = NoRole

\* session s deletes room r in this step (line 47)
SweepDeletes(s, r) ==
    /\ pc[s] = "delete"
    /\ rooms_to_delete[s] # << >>
    /\ Head(rooms_to_delete[s]) = r
    /\ games' = DictDel(games, r)

\* C14: in every step, a room of the registry either stays with a count
\* that is not smaller than before, or is deleted by a sweep; no other step
\* removes it or replaces it by a fresh room.
C14_OnlySweepDestroys ==
    [][\A r \in DOMAIN games :
         \/ r \in DOMAIN games' /\ games'[r].count >= games[r].count
         \/ r \notin DOMAIN games' /\ \E s \in Sessions : SweepDeletes(s, r)]_vars

\* C15: every step that changes the registry or a room is taken by the
\* session that holds the lock.
C15_MutationUnderLock ==
    [][games' # games => \E s \in Sessions : lock = s /\ Stepped(s)]_vars

\* C16: Play Again writes only to a room in which the moves it clears are
\* recorded: both moves at the first write (line 167), player 2's move at
\* the second (line 168).
C16_ResetOnlyWhenResolved ==
    [][\A s \in Sessions :
         (Stepped(s) /\ room[s] \in DOMAIN games) =>
            /\ pc[s] = "reset1" =>
                  /\ games[room[s]].player1_move # None
                  /\ games[room[s]].player2_move # None
            /\ pc[s] = "reset2" => games[room[s]].player2_move # None]_vars

\* C18: a room with a recorded move has count 2.
C18_MoveImpliesFull ==
    \A r \in DOMAIN games :
        (games[r].player1_move # None \/ games[r].player2_move # None)
            => games[r].count = 2

\* both moves of the current round of room r are recorded
BothRecorded(r) ==
    /\ r \in DOMAIN games
    /\ games[r].player1_move # None
    /\ games[r].player2_move # None

\* C17: whenever both moves are recorded in the room of a seated session,
\* that session eventually has the result of the round in hand, computed
\* from the two moves it read (lines 149-163).
C17_BothReachResolved ==
    \A s \in Sessions :
        (Seated(s) /\ BothRecorded(room[s])) ~> (outcome[s] # None)

\* C19: the lock is held only by a session inside the critical section
\* (between its read of the count and its write, lines 80-86), so it is free
\* after each of the three exits; a session waiting at `with lock:` eventually
\* enters, and a session inside eventually leaves and releases the lock.
C19_LockNeverDeadlocks ==
    /\ [](\A s \in Sessions : lock = s => pc[s] = "count")
    /\ \A s \in Sessions : (pc[s] = "assign") ~> (pc[s] # "assign")
    /\ \A s \in Sessions : (pc[s] = "count") ~> (lock # s /\ pc[s] # "count")

\* the three exits have been taken and the lock is free
C19_Witness ==
    /\ lock = NoSession
    /\ \E s1, s2, s3 \in Sessions :
          /\ my_role[s1] = "Player 1" /\ Seated(s1)
          /\ my_role[s2] = "Player 2" /\ Seated(s2)
          /\ Refused(s3)

=============================================================================
